---- MODULE Spec2Model ----
(***************************************************************************)
(* A model of W2ToForm1040Mapper (src/lib/w2-to-1040-mapping.ts), of the   *)
(* W2 field processing of AzureDocumentIntelligenceService that feeds it,  *)
(* and of the POST handler of the document process route                   *)
(* (src/app/api/documents/[id]/process/route.ts).                          *)
(*                                                                         *)
(* Representation.                                                         *)
(*  - A JavaScript value is a tagged record: Undef (undefined/absent),     *)
(*    Num(n), Str(s) or Enum(e).  A string is a sequence of one-character  *)
(*    strings, so trim, split, replace and the regular expressions are     *)
(*    computed character by character.  Enum(e) is a filing-status string. *)
(*  - A number is an exact decimal with two places, held as an integer     *)
(*    count of cents (50000 dollars is 5000000).  Rates are percents, and  *)
(*    Math.round(tax * 100) / 100 is rounding to the cent, half up.  The   *)
(*    rounding error of IEEE doubles is outside the model.                 *)
(*  - An object is a record (function) from field names to values; the     *)
(*    heap of one call holds the caller's two argument objects and the     *)
(*    object the call creates.                                             *)
(***************************************************************************)
EXTENDS Integers, Sequences, FiniteSets, TLC

VARIABLES start, docs, record, existingForm1040, w2Data, out, taxCall, validation, summary,
          ssnCall, pc, document, locals, response, stream, trace, get

\* The variables of the fold of mapW2ToForm1040 over documents.
mapperVars == <<start, docs, record, existingForm1040, w2Data, out>>

\* The variables of one run of the POST handler of the process route.
postVars == <<pc, document, locals, response, stream, trace>>

vars == <<mapperVars, taxCall, validation, summary, ssnCall, postVars, get>>

(***************************************************************************)
(* Bounds                                                                  *)
(***************************************************************************)
\* The number of documents folded into one accumulating record.
MaxDocs == 2

\* The length of the strings over SSNAlphabet given to formatSSN.
MaxShortLen == 3

\* The number of digits in the longer strings given to formatSSN.
MaxDigits == 10

(***************************************************************************)
(* JavaScript values                                                       *)
(***************************************************************************)
Undef == [undef |-> TRUE]

Num(n) == [num |-> n]

Str(s) == [str |-> s]

Enum(e) == [enum |-> e]

IsNum(v) == DOMAIN v = {"num"}

IsStr(v) == DOMAIN v = {"str"}

IsEnum(v) == DOMAIN v = {"enum"}

IsUndef(v) == DOMAIN v = {"undef"}

\* ToBoolean: undefined, 0 and '' are falsy; everything else is truthy.
Truthy(v) ==
  IF IsNum(v) THEN v.num # 0
  ELSE IF IsStr(v) THEN v.str # <<>>
  ELSE IF IsEnum(v) THEN v.enum # ""
  ELSE FALSE

\* (x || 0) for a numeric line x.
OrZero(v) == IF IsNum(v) /\ v.num # 0 THEN v.num ELSE 0

(***************************************************************************)
(* Characters and strings                                                  *)
(***************************************************************************)
IsSpace(c) == c = " "

IsDigit(c) == c \in {"0", "1", "2", "3", "4", "5", "6", "7", "8", "9"}

IsUpper(c) ==
  c \in {"A", "B", "C", "D", "E", "F", "G", "H", "I", "J", "K", "L", "M",
         "N", "O", "P", "Q", "R", "S", "T", "U", "V", "W", "X", "Y", "Z"}

DigitVal(c) ==
  CASE c = "0" -> 0 [] c = "1" -> 1 [] c = "2" -> 2 [] c = "3" -> 3
    [] c = "4" -> 4 [] c = "5" -> 5 [] c = "6" -> 6 [] c = "7" -> 7
    [] c = "8" -> 8 [] c = "9" -> 9

AllDigits(s) == \A i \in 1..Len(s) : IsDigit(s[i])

RECURSIVE TrimLeft(_)
TrimLeft(s) == IF s # <<>> /\ IsSpace(Head(s)) THEN TrimLeft(Tail(s)) ELSE s

RECURSIVE TrimRight(_)
TrimRight(s) ==
  IF s # <<>> /\ IsSpace(s[Len(s)]) THEN TrimRight(SubSeq(s, 1, Len(s) - 1)) ELSE s

\* String.prototype.trim
Trim(s) == TrimRight(TrimLeft(s))

\* s.split(/\s+/): cur is the piece being read, acc the pieces read so far.
RECURSIVE SplitWsFrom(_, _, _)
SplitWsFrom(s, cur, acc) ==
  IF s = <<>> THEN Append(acc, cur)
  ELSE IF IsSpace(Head(s)) THEN SplitWsFrom(TrimLeft(s), <<>>, Append(acc, cur))
  ELSE SplitWsFrom(Tail(s), Append(cur, Head(s)), acc)

SplitWs(s) == SplitWsFrom(s, <<>>, <<>>)

\* s.split(',')
RECURSIVE SplitCommaFrom(_, _, _)
SplitCommaFrom(s, cur, acc) ==
  IF s = <<>> THEN Append(acc, cur)
  ELSE IF Head(s) = "," THEN SplitCommaFrom(Tail(s), <<>>, Append(acc, cur))
  ELSE SplitCommaFrom(Tail(s), Append(cur, Head(s)), acc)

SplitComma(s) == SplitCommaFrom(s, <<>>, <<>>)

\* parts.join(sep)
RECURSIVE Join(_, _)
Join(parts, sep) ==
  IF parts = <<>> THEN <<>>
  ELSE IF Len(parts) = 1 THEN parts[1]
  ELSE parts[1] \o sep \o Join(Tail(parts), sep)

\* The value of a run of digits read as a decimal numeral.
RECURSIVE DigitsVal(_)
DigitsVal(s) ==
  IF s = <<>> THEN 0 ELSE 10 * DigitsVal(SubSeq(s, 1, Len(s) - 1)) + DigitVal(s[Len(s)])

\* The longest prefix of s made of digits.
RECURSIVE DigitPrefix(_)
DigitPrefix(s) ==
  IF s # <<>> /\ IsDigit(Head(s)) THEN <<Head(s)>> \o DigitPrefix(Tail(s)) ELSE <<>>

(***************************************************************************)
(* parseFloat on a string without leading white space: an optional sign,   *)
(* digits, an optional point and digits; the longest such prefix is read   *)
(* and the rest ignored.  The result is [nan |-> TRUE] when no digit is    *)
(* read, else [nan |-> FALSE, cents |-> n].  Digits past the second        *)
(* decimal place are dropped; exponents and "Infinity" are not modelled.   *)
(***************************************************************************)
ParseFloat(s) ==
  LET signed == s # <<>> /\ Head(s) \in {"+", "-"}
      body   == IF signed THEN Tail(s) ELSE s
      int    == DigitPrefix(body)
      rest   == SubSeq(body, Len(int) + 1, Len(body))
      frac   == IF rest # <<>> /\ Head(rest) = "." THEN DigitPrefix(Tail(rest)) ELSE <<>>
      frac2  == SubSeq(frac \o <<"0", "0">>, 1, 2)
      mag    == 100 * DigitsVal(int) + DigitsVal(frac2)
  IN  IF int = <<>> /\ frac = <<>> THEN [nan |-> TRUE, cents |-> 0]
      ELSE [nan |-> FALSE, cents |-> IF signed /\ Head(s) = "-" THEN 0 - mag ELSE mag]

(***************************************************************************)
(* W2ToForm1040Mapper: the helpers                                         *)
(***************************************************************************)
\* parseAmount: a number passes through, a string is stripped of '$', ','
\* and white space and read by parseFloat (NaN gives 0), anything else is 0.
parseAmount(value) ==
  IF IsNum(value) THEN value.num
  ELSE IF IsStr(value)
    THEN LET cleaned == SelectSeq(value.str, LAMBDA c : ~(c \in {"$", ","} \/ IsSpace(c)))
             parsed  == ParseFloat(cleaned)
         IN  IF parsed.nan THEN 0 ELSE parsed.cents
  ELSE 0

\* A variant of FormatSSNString that returns the string as it came unless it
\* holds nine digits.
FormatSSNStringUnlessNine(s) ==
  LET cleaned == SelectSeq(s, IsDigit)
  IN  IF Len(cleaned) = 9
        THEN SubSeq(cleaned, 1, 3) \o <<"-">> \o SubSeq(cleaned, 4, 5) \o <<"-">>
             \o SubSeq(cleaned, 6, 9)
        ELSE s

\* formatSSN on a string of characters: the digits, dashed 3-2-4 when there are nine.
FormatSSNString(s) ==
  LET cleaned == SelectSeq(s, IsDigit)
  IN  IF Len(cleaned) = 9
        THEN SubSeq(cleaned, 1, 3) \o <<"-">> \o SubSeq(cleaned, 4, 5) \o <<"-">>
             \o SubSeq(cleaned, 6, 9)
        ELSE cleaned

\* formatSSN on any value: a falsy value gives '', a string is formatted, and
\* any other truthy value has no replace method, so the call throws a TypeError.
formatSSN(ssn) ==
  IF ~Truthy(ssn) THEN [threw |-> FALSE, value |-> <<>>]
  ELSE IF IsStr(ssn) THEN [threw |-> FALSE, value |-> FormatSSNString(ssn.str)]
  ELSE [threw |-> TRUE, value |-> <<>>]

\* stateZip.match(/^([A-Z]{2})\s*(\d{5}(-\d{4})?)$/)
MatchStateZip(s) ==
  LET rest == IF Len(s) >= 2 THEN TrimLeft(SubSeq(s, 3, Len(s))) ELSE <<>>
      zip5 == Len(rest) = 5 /\ AllDigits(rest)
      zip9 == /\ Len(rest) = 10
              /\ AllDigits(SubSeq(rest, 1, 5))
              /\ rest[6] = "-"
              /\ AllDigits(SubSeq(rest, 7, 10))
      ok   == Len(s) >= 2 /\ IsUpper(s[1]) /\ IsUpper(s[2]) /\ (zip5 \/ zip9)
  IN  [ok |-> ok, state |-> IF ok THEN SubSeq(s, 1, 2) ELSE <<>>,
       zip |-> IF ok THEN rest ELSE <<>>]

\* parseAddress on a string of characters.
ParseAddressString(s) ==
  LET raw   == SplitComma(s)
      parts == [i \in 1..Len(raw) |-> Trim(raw[i])]
      n     == Len(parts)
      m     == MatchStateZip(parts[n])
  IN  IF n >= 3
        THEN [street  |-> Join(SubSeq(parts, 1, n - 2), <<",", " ">>),
              city    |-> parts[n - 1],
              state   |-> m.state,
              zipCode |-> m.zip]
        ELSE [street |-> s, city |-> <<>>, state |-> <<>>, zipCode |-> <<>>]

\* parseAddress on any value: a value that is no string has no split method.
parseAddress(address) ==
  IF IsStr(address) THEN [threw |-> FALSE, parts |-> ParseAddressString(address.str)]
  ELSE [threw |-> TRUE, parts |-> ParseAddressString(<<>>)]

\* The two name fields from w2Data.employeeName.trim().split(/\s+/); a value
\* that is no string has no trim method.
SplitName(name) ==
  IF IsStr(name)
    THEN LET nameParts == SplitWs(Trim(name.str))
         IN  [threw |-> FALSE, firstName |-> nameParts[1],
              lastName |-> Join(Tail(nameParts), <<" ">>)]
    ELSE [threw |-> TRUE, firstName |-> <<>>, lastName |-> <<>>]

\* The income lines calculateTotalIncome adds, in its order.
IncomeLines == <<"line1", "line2b", "line3b", "line4b", "line5b", "line6b", "line7", "line8">>

RECURSIVE SumLines(_, _)
SumLines(rec, names) ==
  IF names = <<>> THEN 0 ELSE OrZero(rec[Head(names)]) + SumLines(rec, Tail(names))

\* A variant of calculateTotalIncome that leaves out line8.
calculateTotalIncomeWithoutLine8(form1040Data) ==
  SumLines(form1040Data, SubSeq(IncomeLines, 1, 7))

calculateTotalIncome(form1040Data) == SumLines(form1040Data, IncomeLines)

\* getStandardDeduction: the 2023 table, the SINGLE amount for any other key.
getStandardDeduction(filingStatus) ==
  LET key == IF IsEnum(filingStatus) THEN filingStatus.enum ELSE ""
  IN  CASE key = "SINGLE" -> 13850 * 100
        [] key = "MARRIED_FILING_JOINTLY" -> 27700 * 100
        [] key = "MARRIED_FILING_SEPARATELY" -> 13850 * 100
        [] key = "HEAD_OF_HOUSEHOLD" -> 20800 * 100
        [] key = "QUALIFYING_SURVIVING_SPOUSE" -> 27700 * 100
        [] OTHER -> 13850 * 100

\* A bracket: min and max in cents (inf: max is Infinity), rate in percent.
Bracket(min, max, rate) == [min |-> min * 100, max |-> max * 100, inf |-> FALSE, rate |-> rate]

LastBracket(min, rate) == [min |-> min * 100, max |-> 0, inf |-> TRUE, rate |-> rate]

MarriedJointBrackets ==
  << Bracket(0, 22000, 10), Bracket(22000, 89450, 12), Bracket(89450, 190750, 22),
     Bracket(190750, 364200, 24), Bracket(364200, 462500, 32),
     Bracket(462500, 693750, 35), LastBracket(693750, 37) >>

SingleBrackets ==
  << Bracket(0, 11000, 10), Bracket(11000, 44725, 12), Bracket(44725, 95375, 22),
     Bracket(95375, 182050, 24), Bracket(182050, 231250, 32),
     Bracket(231250, 578125, 35), LastBracket(578125, 37) >>

Min(a, b) == IF a <= b THEN a ELSE b

Max(a, b) == IF a >= b THEN a ELSE b

\* A variant of the loop that takes each bracket's upper bound for its width.
RECURSIVE BracketWalkToUpperBound(_, _, _, _)
BracketWalkToUpperBound(brackets, i, remainingIncome, tax) ==
  IF i > Len(brackets) \/ remainingIncome <= 0 THEN tax
  ELSE LET b == brackets[i]
           taxableAtThisBracket ==
             IF b.inf THEN remainingIncome ELSE Min(remainingIncome, b.max)
       IN  BracketWalkToUpperBound(brackets, i + 1, remainingIncome - taxableAtThisBracket,
                                   tax + taxableAtThisBracket * b.rate)

\* The loop of calculateTaxLiability from bracket i on: tax is in hundredths
\* of a cent (cents times percent).
RECURSIVE BracketWalk(_, _, _, _)
BracketWalk(brackets, i, remainingIncome, tax) ==
  IF i > Len(brackets) \/ remainingIncome <= 0 THEN tax
  ELSE LET b == brackets[i]
           taxableAtThisBracket ==
             IF b.inf THEN remainingIncome ELSE Min(remainingIncome, b.max - b.min)
       IN  BracketWalk(brackets, i + 1, remainingIncome - taxableAtThisBracket,
                       tax + taxableAtThisBracket * b.rate)

\* A variant of calculateTaxLiability that walks the joint table for every status.
calculateTaxLiabilityJointTable(taxableIncome, filingStatus) ==
  (BracketWalk(MarriedJointBrackets, 1, taxableIncome, 0) + 50) \div 100

\* calculateTaxLiability: the walk, then Math.round(tax * 100) / 100.
calculateTaxLiability(taxableIncome, filingStatus) ==
  LET brackets == IF filingStatus = Enum("MARRIED_FILING_JOINTLY")
                    THEN MarriedJointBrackets ELSE SingleBrackets
      tax == BracketWalk(brackets, 1, taxableIncome, 0)
  IN  (tax + 50) \div 100

(***************************************************************************)
(* Records                                                                 *)
(***************************************************************************)
IdentityFields == {"firstName", "lastName", "ssn", "address", "city", "state", "zipCode"}

LineFields ==
  {"line1", "line2b", "line3b", "line4b", "line5b", "line6b", "line7", "line8",
   "line9", "line11", "line12", "line13", "line15", "line16", "line17", "line23",
   "line24", "line25a", "line25b", "line25c", "line25d", "line32", "line33",
   "line34", "line37"}

\* The fields of Partial<Form1040Data> the mapper reads or writes.
FormFields == IdentityFields \cup {"filingStatus"} \cup LineFields

\* The fields of the raw bag the mapper reads.
RawFields == {"employeeName", "employeeSSN", "employeeAddress", "wages", "federalTaxWithheld"}

\* An object given by its present fields; every other field is absent.
Form(present) == [f \in FormFields |-> IF f \in DOMAIN present THEN present[f] ELSE Undef]

Bag(present) == [f \in RawFields |-> IF f \in DOMAIN present THEN present[f] ELSE Undef]

EmptyForm == [f \in FormFields |-> Undef]

EmptyBag == [f \in RawFields |-> Undef]

(***************************************************************************)
(* One call of mapW2ToForm1040.  A frame is the call's heap (the caller's  *)
(* two argument objects and the object the call creates), the reference    *)
(* the local form1040Data holds, and whether a TypeError has been thrown;  *)
(* once thrown, the rest of the body does not run.                         *)
(***************************************************************************)
Get(fr, f) == fr.heap[fr.form1040Data][f]

Set(fr, f, v) == [fr EXCEPT !.heap[fr.form1040Data][f] = v]

Raw(fr, f) == fr.heap["w2Data"][f]

Throw(fr) == [fr EXCEPT !.threw = TRUE]

\* A variant of SpreadCopy that copies the reference, not the object.
AliasExisting(heap) == [heap |-> heap, form1040Data |-> "existingForm1040", threw |-> FALSE]

\* const form1040Data = { ...existingForm1040 }: a new object with the same fields.
SpreadCopy(heap) ==
  [heap |-> [heap EXCEPT !["created"] = heap["existingForm1040"]],
   form1040Data |-> "created", threw |-> FALSE]

\* if (w2Data.employeeName && !form1040Data.firstName) { ... }
MapName(fr) ==
  IF fr.threw \/ ~(Truthy(Raw(fr, "employeeName")) /\ ~Truthy(Get(fr, "firstName"))) THEN fr
  ELSE LET n == SplitName(Raw(fr, "employeeName"))
       IN  IF n.threw THEN Throw(fr)
           ELSE Set(Set(fr, "firstName", Str(n.firstName)), "lastName", Str(n.lastName))

\* if (w2Data.employeeSSN && !form1040Data.ssn) { ... }
MapSSN(fr) ==
  IF fr.threw \/ ~(Truthy(Raw(fr, "employeeSSN")) /\ ~Truthy(Get(fr, "ssn"))) THEN fr
  ELSE LET s == formatSSN(Raw(fr, "employeeSSN"))
       IN  IF s.threw THEN Throw(fr) ELSE Set(fr, "ssn", Str(s.value))

\* if (w2Data.employeeAddress && !form1040Data.address) { ... }
MapAddress(fr) ==
  IF fr.threw \/ ~(Truthy(Raw(fr, "employeeAddress")) /\ ~Truthy(Get(fr, "address"))) THEN fr
  ELSE LET a == parseAddress(Raw(fr, "employeeAddress"))
       IN  IF a.threw THEN Throw(fr)
           ELSE Set(Set(Set(Set(fr, "address", Str(a.parts.street)),
                            "city", Str(a.parts.city)),
                        "state", Str(a.parts.state)),
                    "zipCode", Str(a.parts.zipCode))

\* A variant of Accumulate that adds every non-zero amount, negative ones too.
AccumulateNonZero(fr, line, rawField) ==
  LET amount == parseAmount(Raw(fr, rawField))
  IN  IF fr.threw \/ amount = 0 THEN fr
      ELSE Set(fr, line, Num(OrZero(Get(fr, line)) + amount))

\* A variant of Accumulate that stores the amount instead of adding it.
AccumulateOverwrite(fr, line, rawField) ==
  LET amount == parseAmount(Raw(fr, rawField))
  IN  IF fr.threw \/ ~(amount > 0) THEN fr
      ELSE Set(fr, line, Num(amount))

\* const amount = parseAmount(w2Data[rawField]);
\* if (amount > 0) form1040Data[line] = (form1040Data[line] || 0) + amount
Accumulate(fr, line, rawField) ==
  LET amount == parseAmount(Raw(fr, rawField))
  IN  IF fr.threw \/ ~(amount > 0) THEN fr
      ELSE Set(fr, line, Num(OrZero(Get(fr, line)) + amount))

\* line9 and line11
TotalIncome(fr) ==
  IF fr.threw THEN fr
  ELSE LET line9 == calculateTotalIncome(fr.heap[fr.form1040Data])
       IN  Set(Set(fr, "line9", Num(line9)), "line11", Num(line9))

\* if (!form1040Data.line12 && form1040Data.filingStatus) line12 = getStandardDeduction(...)
StandardDeduction(fr) ==
  IF fr.threw \/ ~(~Truthy(Get(fr, "line12")) /\ Truthy(Get(fr, "filingStatus"))) THEN fr
  ELSE Set(fr, "line12", Num(getStandardDeduction(Get(fr, "filingStatus"))))

\* A variant of TaxableIncome without the floor at 0.
TaxableIncomeUnfloored(fr) ==
  IF fr.threw THEN fr
  ELSE Set(fr, "line15",
           Num(OrZero(Get(fr, "line11")) - OrZero(Get(fr, "line12"))
               - OrZero(Get(fr, "line13"))))

\* line15 = Math.max(0, line11 - line12 - line13), absent lines as 0
TaxableIncome(fr) ==
  IF fr.threw THEN fr
  ELSE Set(fr, "line15",
           Num(Max(0, OrZero(Get(fr, "line11")) - OrZero(Get(fr, "line12"))
                      - OrZero(Get(fr, "line13")))))

\* line16 = calculateTaxLiability(line15 || 0, filingStatus)
TaxLiability(fr) ==
  IF fr.threw THEN fr
  ELSE Set(fr, "line16",
           Num(calculateTaxLiability(OrZero(Get(fr, "line15")), Get(fr, "filingStatus"))))

\* line24 = line16 + line17 + line23
TotalTax(fr) ==
  IF fr.threw THEN fr
  ELSE Set(fr, "line24",
           Num(OrZero(Get(fr, "line16")) + OrZero(Get(fr, "line17"))
               + OrZero(Get(fr, "line23"))))

\* A variant of TotalPayments that adds the payments onto the line32 it finds.
TotalPaymentsOntoExisting(fr) ==
  IF fr.threw THEN fr
  ELSE Set(fr, "line32",
           Num(OrZero(Get(fr, "line32"))
               + OrZero(Get(fr, "line25a")) + OrZero(Get(fr, "line25b"))
               + OrZero(Get(fr, "line25c")) + OrZero(Get(fr, "line25d"))))

\* line32 = line25a + line25b + line25c + line25d
TotalPayments(fr) ==
  IF fr.threw THEN fr
  ELSE Set(fr, "line32",
           Num(OrZero(Get(fr, "line25a")) + OrZero(Get(fr, "line25b"))
               + OrZero(Get(fr, "line25c")) + OrZero(Get(fr, "line25d"))))

\* A variant of Settle whose refund branch leaves line37 as it was.
SettleKeepsOwed(fr) ==
  IF fr.threw THEN fr
  ELSE LET totalTax      == OrZero(Get(fr, "line24"))
           totalPayments == OrZero(Get(fr, "line32"))
       IN  IF totalPayments > totalTax
             THEN Set(Set(fr, "line33", Num(totalPayments - totalTax)),
                      "line34", Num(totalPayments - totalTax))
             ELSE Set(Set(Set(fr, "line33", Num(0)), "line34", Num(0)),
                      "line37", Num(totalTax - totalPayments))

\* The refund or the amount owed.
Settle(fr) ==
  IF fr.threw THEN fr
  ELSE LET totalTax      == OrZero(Get(fr, "line24"))
           totalPayments == OrZero(Get(fr, "line32"))
       IN  IF totalPayments > totalTax
             THEN Set(Set(Set(fr, "line33", Num(totalPayments - totalTax)),
                          "line34", Num(totalPayments - totalTax)),
                      "line37", Num(0))
             ELSE Set(Set(Set(fr, "line33", Num(0)), "line34", Num(0)),
                      "line37", Num(totalTax - totalPayments))

\* What the caller sees after the call: whether it threw, the returned record
\* (EmptyForm stands for none), and the two argument objects as they are now.
mapW2ToForm1040(w2, existing) ==
  LET heap0 == [existingForm1040 |-> existing, w2Data |-> w2, created |-> EmptyForm]
      f0    == SpreadCopy(heap0)
      f1    == MapAddress(MapSSN(MapName(f0)))
      f2    == Accumulate(Accumulate(f1, "line1", "wages"), "line25a", "federalTaxWithheld")
      f3    == TaxLiability(TaxableIncome(StandardDeduction(TotalIncome(f2))))
      f4    == Settle(TotalPayments(TotalTax(f3)))
  IN  [threw    |-> f4.threw,
       value    |-> IF f4.threw THEN EmptyForm ELSE f4.heap[f4.form1040Data],
       existing |-> f4.heap["existingForm1040"],
       w2       |-> f4.heap["w2Data"]]

(***************************************************************************)
(* AzureDocumentIntelligenceService.processW2Fields, for the fields the    *)
(* mapper reads: every field the analysis returns is stored as a number,   *)
(* the value itself when it is one and parseAmount of it otherwise.        *)
(***************************************************************************)
w2FieldMappings ==
  [employeeName |-> "Employee.Name", employeeSSN |-> "Employee.SSN",
   employeeAddress |-> "Employee.Address", wages |-> "WagesAndTips",
   federalTaxWithheld |-> "FederalIncomeTaxWithheld"]

processW2Fields(fields) ==
  [f \in RawFields |->
     LET value == fields[w2FieldMappings[f]]
     IN  IF IsUndef(value) THEN Undef
         ELSE IF IsNum(value) THEN value ELSE Num(parseAmount(value))]

(***************************************************************************)
(* The inputs of the model: strings, starting records and raw documents.   *)
(***************************************************************************)
\* "Al Bo"
sAlBo == <<"A", "l", " ", "B", "o">>

\* "Cy"
sCy == <<"C", "y">>

\* " "
sBlank == <<" ">>

\* " Di  Ev Fa "
sDiEvFa == <<" ", "D", "i", " ", " ", "E", "v", " ", "F", "a", " ">>

\* "Oz"
sOz == <<"O", "z">>

\* "Q"
sQ == <<"Q">>

\* "123456789"
sSsn9 == <<"1", "2", "3", "4", "5", "6", "7", "8", "9">>

\* "12-3"
sSsnShort == <<"1", "2", "-", "3">>

\* "987-65-4321"
sSsnDashed == <<"9", "8", "7", "-", "6", "5", "-", "4", "3", "2", "1">>

\* "1 A,B,IL 62704"
sAddrFull == <<"1", " ", "A", ",", "B", ",", "I", "L", " ", "6", "2", "7", "0", "4">>

\* "9 Z"
sAddrShort == <<"9", " ", "Z">>

\* ",B,IL 62704"
sAddrNoStreet == <<",", "B", ",", "I", "L", " ", "6", "2", "7", "0", "4">>

\* "2 C, 3, D, NY10001-1234"
sAddrLong == <<"2", " ", "C", ",", " ", "3", ",", " ", "D", ",", " ", "N", "Y", "1", "0", "0", "0", "1", "-", "1", "2", "3", "4">>

\* "4 E,F,il 1"
sAddrBadZip == <<"4", " ", "E", ",", "F", ",", "i", "l", " ", "1">>

\* "$1,500"
sAmtDollar == <<"$", "1", ",", "5", "0", "0">>

\* "abc"
sAmtWord == <<"a", "b", "c">>

\* "-5"
sAmtNeg == <<"-", "5">>

\* "1.5"
sAmtFrac == <<"1", ".", "5">>

\* "12x"
sAmtTail == <<"1", "2", "x">>

\* "123-45-6789"
sAzSsn == <<"1", "2", "3", "-", "4", "5", "-", "6", "7", "8", "9">>

\* "5,000.00"
sAzFed == <<"5", ",", "0", "0", "0", ".", "0", "0">>

\* The records a fold can start from: the empty record, records that hold a
\* filing status, records with part of an identity, and a record with every
\* input line and stale derived lines.
StartRecords ==
  { EmptyForm,
    Form([filingStatus |-> Enum("SINGLE")]),
    Form([filingStatus |-> Enum("MARRIED_FILING_JOINTLY"), line12 |-> Num(0)]),
    Form([filingStatus |-> Enum("HEAD_OF_HOUSEHOLD"), line12 |-> Num(500000),
          line13 |-> Num(100000), line1 |-> Num(3000000)]),
    Form([filingStatus |-> Enum("MARRIED_FILING_SEPARATELY"), line1 |-> Num(2000000)]),
    Form([filingStatus |-> Enum("QUALIFYING_SURVIVING_SPOUSE"), line1 |-> Num(10000000),
          line25a |-> Num(100)]),
    Form([filingStatus |-> Enum("OTHER"), line25a |-> Num(9000000)]),
    Form([lastName |-> Str(sOz), ssn |-> Str(sSsnDashed)]),
    Form([firstName |-> Str(sCy), lastName |-> Str(<<>>), city |-> Str(sQ),
          line12 |-> Num(0)]),
    Form([line1 |-> Num(100000), line2b |-> Num(100), line3b |-> Num(200),
          line4b |-> Num(400), line5b |-> Num(800), line6b |-> Num(1600),
          line7 |-> Num(3200), line8 |-> Num(6400), line9 |-> Num(5),
          line11 |-> Num(7), line15 |-> Num(9), line16 |-> Num(11),
          line17 |-> Num(1300), line23 |-> Num(1700), line24 |-> Num(13),
          line25a |-> Num(1000), line25b |-> Num(2000), line25c |-> Num(4000),
          line25d |-> Num(8000), line32 |-> Num(15), line33 |-> Num(17),
          line34 |-> Num(19), line37 |-> Num(21)]) }

\* Raw bags as a caller can pass them: each value absent, a string or a number.
RawDocs ==
  { EmptyBag,
    Bag([wages |-> Num(5000000), federalTaxWithheld |-> Num(500000)]),
    Bag([employeeName |-> Str(sAlBo), employeeSSN |-> Str(sSsn9),
         employeeAddress |-> Str(sAddrFull), wages |-> Str(sAmtDollar),
         federalTaxWithheld |-> Str(sAmtFrac)]),
    Bag([employeeName |-> Str(sDiEvFa), employeeSSN |-> Str(sSsnShort),
         employeeAddress |-> Str(sAddrLong), wages |-> Str(sAmtTail),
         federalTaxWithheld |-> Str(sAmtWord)]),
    Bag([employeeName |-> Str(sBlank), employeeSSN |-> Str(sAmtWord),
         employeeAddress |-> Str(sAddrNoStreet), wages |-> Str(sAmtNeg)]),
    Bag([employeeName |-> Str(sCy), employeeAddress |-> Str(sAddrShort),
         wages |-> Num(0), federalTaxWithheld |-> Num(0 - 100)]),
    Bag([employeeAddress |-> Str(sAddrBadZip), federalTaxWithheld |-> Num(9000000)]),
    Bag([employeeName |-> Num(700), wages |-> Num(100)]),
    Bag([employeeSSN |-> Num(12300)]),
    Bag([employeeAddress |-> Num(100), employeeName |-> Str(<<>>)]) }

\* What the document analysis returns for a W2, by its own field names.
AzureFieldNames ==
  {"Employee.Name", "Employee.SSN", "Employee.Address", "WagesAndTips",
   "FederalIncomeTaxWithheld"}

Fields(present) == [f \in AzureFieldNames |-> IF f \in DOMAIN present THEN present[f] ELSE Undef]

AzureDocs ==
  { Fields([n \in {"Employee.Name", "WagesAndTips"} |->
              IF n = "Employee.Name" THEN Str(sAlBo) ELSE Str(sAmtDollar)]),
    Fields([n \in {"Employee.Name", "Employee.SSN", "WagesAndTips", "FederalIncomeTaxWithheld"} |->
              CASE n = "Employee.Name" -> Str(sAlBo)
                [] n = "Employee.SSN" -> Str(sAzSsn)
                [] n = "WagesAndTips" -> Num(5000000)
                [] n = "FederalIncomeTaxWithheld" -> Str(sAzFed)]),
    Fields([n \in {"Employee.Address"} |-> Str(sAddrFull)]) }

(***************************************************************************)
(* A direct call of calculateTaxLiability.  taxCall holds the arguments,   *)
(* whether the call has returned, and the value it returned.               *)
(***************************************************************************)
\* The filing statuses a caller passes: the five of the return, one the
\* tables do not know, and none.
TaxStatuses ==
  { Enum("SINGLE"), Enum("MARRIED_FILING_JOINTLY"), Enum("MARRIED_FILING_SEPARATELY"),
    Enum("HEAD_OF_HOUSEHOLD"), Enum("QUALIFYING_SURVIVING_SPOUSE"), Enum("OTHER"), Undef }

\* The finite upper bounds of a table, in cents.
UpperBounds(brackets) == { brackets[i].max : i \in { j \in 1..Len(brackets) : ~brackets[j].inf } }

\* Distances from a bracket bound, in cents: a dollar and a cent to each side.
TaxOffsets == { 0 - 100, 0 - 1, 0, 1, 100 }

\* The largest taxable income walked through the single table: the tax, in
\* hundredths of a cent, stays within 32-bit integers.
MaxSingleIncome == 600000 * 100

\* Taxable incomes at and around every bracket bound of both tables, zero,
\* and a negative amount.  The tax of none of them lies half-way between two
\* cents, where the rounding of a double could differ from exact rounding.
TaxIncomes ==
  { b + d : b \in UpperBounds(SingleBrackets) \cup UpperBounds(MarriedJointBrackets) \cup {0},
            d \in TaxOffsets }

TaxCalls ==
  { [taxableIncome |-> t, filingStatus |-> s, returned |-> FALSE, tax |-> 0] :
      <<t, s>> \in { c \in TaxIncomes \X TaxStatuses :
                       c[1] <= MaxSingleIncome \/ c[2] = Enum("MARRIED_FILING_JOINTLY") } }

\* No call of calculateTaxLiability is in hand.
NoTaxCall == [taxableIncome |-> 0, filingStatus |-> Undef, returned |-> FALSE, tax |-> 0]

(***************************************************************************)
(* validateW2DataForMapping and the W2 bag it is given.  The bag is either *)
(* a raw bag or what processW2Document made of an extraction.              *)
(***************************************************************************)
\* The fields of a W2 bag that the validator and the mapping summary read.
W2Fields ==
  {"wages", "line1", "employeeSSN", "ssn", "employeeName", "firstName", "lastName",
   "federalTaxWithheld", "employerName", "employerEIN", "socialSecurityWages",
   "medicareWages"}

W2Bag(present) == [f \in W2Fields |-> IF f \in DOMAIN present THEN present[f] ELSE Undef]

EmptyW2Bag == [f \in W2Fields |-> Undef]

WagesError == "W2 wages (Box 1) is required but not found"

SSNError == "Employee SSN is required but not found"

NameError == "Employee name is required but not found"

WithheldWarning == "Federal tax withheld (Box 2) not found - no withholdings will be applied"

EmployerNameWarning == "Employer name not found - may be needed for verification"

EmployerEINWarning == "Employer EIN not found - may be needed for verification"

\* errors.push(message) or warnings.push(message) under its condition
PushIf(condition, message) == IF condition THEN <<message>> ELSE <<>>

validateW2DataForMapping(w2) ==
  LET errors ==
        PushIf(~Truthy(w2["wages"]) /\ ~Truthy(w2["line1"]), WagesError)
        \o PushIf(~Truthy(w2["employeeSSN"]) /\ ~Truthy(w2["ssn"]), SSNError)
        \o PushIf(~Truthy(w2["employeeName"]) /\ ~Truthy(w2["firstName"])
                     /\ ~Truthy(w2["lastName"]), NameError)
      warnings ==
        PushIf(~Truthy(w2["federalTaxWithheld"]), WithheldWarning)
        \o PushIf(~Truthy(w2["employerName"]), EmployerNameWarning)
        \o PushIf(~Truthy(w2["employerEIN"]), EmployerEINWarning)
  IN  [isValid |-> Len(errors) = 0, errors |-> errors, warnings |-> warnings]

\* The fields processW2Document defaults to '' and to 0.
DefaultedStrings == {"employerName", "employerEIN", "employeeName", "employeeSSN"}

DefaultedAmounts == {"wages", "federalTaxWithheld", "socialSecurityWages", "medicareWages"}

\* processW2Document: the defaults, then ...extractedData over them, so a
\* field the extraction holds keeps its value and a defaulted field it lacks
\* is '' or 0.
processW2Document(extractedData) ==
  [f \in W2Fields |->
     IF ~IsUndef(extractedData[f]) THEN extractedData[f]
     ELSE IF f \in DefaultedStrings THEN Str(<<>>)
     ELSE IF f \in DefaultedAmounts THEN Num(0)
     ELSE Undef]

sEin == <<"1", "2", "-", "3">>

\* The bags validated: each field the validator reads is absent, holds 0 or
\* '', or holds a value.
ValidatorBags ==
  { W2Bag([wages |-> a, line1 |-> b, employeeSSN |-> c, ssn |-> d, employeeName |-> e,
           firstName |-> g, lastName |-> h, federalTaxWithheld |-> i,
           employerName |-> j, employerEIN |-> k]) :
      a \in {Undef, Num(0), Num(5000000), Str(sAmtDollar)},
      b \in {Undef, Num(100)},
      c \in {Undef, Str(<<>>), Str(sSsn9)},
      d \in {Undef, Str(sSsnDashed)},
      e \in {Undef, Str(<<>>), Str(sAlBo)},
      g \in {Undef, Str(sCy)},
      h \in {Undef, Str(sOz)},
      i \in {Undef, Num(0), Num(500000)},
      j \in {Undef, Str(<<>>), Str(sQ)},
      k \in {Undef, Str(sEin)} }

\* No validation is in hand.  source is "raw" for a bag validated as it is
\* and "processed" for one that went through processW2Document.
NoValidation ==
  [w2Data |-> EmptyW2Bag, source |-> "none", returned |-> FALSE,
   result |-> [isValid |-> FALSE, errors |-> <<>>, warnings |-> <<>>]]

(***************************************************************************)
(* createMappingSummary.                                                   *)
(***************************************************************************)
\* One entry of the summary.
Mapping(w2Field, w2Value, form1040Line, form1040Value, description) ==
  [w2Field |-> w2Field, w2Value |-> w2Value, form1040Line |-> form1040Line,
   form1040Value |-> form1040Value, description |-> description]

\* if (w2Data.<field>) mappings.push({ ... form1040Value: parseAmount(w2Data.<field>) ... })
AmountMapping(w2, field, w2Field, form1040Line, description) ==
  IF Truthy(w2[field])
    THEN << Mapping(w2Field, w2[field], form1040Line, Num(parseAmount(w2[field])),
                    description) >>
    ELSE <<>>

\* What the caller sees after createMappingSummary: whether it threw, the
\* list it returned (none when it threw), and the argument object as it is
\* now.  The call throws where formatSSN does.
createMappingSummary(w2) ==
  LET name ==
        IF Truthy(w2["employeeName"])
          THEN << Mapping("Employee Name", w2["employeeName"], "Header",
                          w2["employeeName"], "Taxpayer name from W2") >>
          ELSE <<>>
      ssn ==
        IF Truthy(w2["employeeSSN"])
          THEN << Mapping("Employee SSN", w2["employeeSSN"], "Header",
                          Str(formatSSN(w2["employeeSSN"]).value), "Taxpayer SSN from W2") >>
          ELSE <<>>
      mappings ==
        name \o ssn
        \o AmountMapping(w2, "wages", "Box 1 - Wages", "Line 1",
                         "Wages, tips, other compensation")
        \o AmountMapping(w2, "federalTaxWithheld", "Box 2 - Federal Tax Withheld", "Line 25a",
                         "Federal income tax withheld")
        \o AmountMapping(w2, "socialSecurityWages", "Box 3 - Social Security Wages",
                         "Informational", "Social security wages (informational)")
        \o AmountMapping(w2, "medicareWages", "Box 5 - Medicare Wages", "Informational",
                         "Medicare wages and tips (informational)")
      threw == Truthy(w2["employeeSSN"]) /\ formatSSN(w2["employeeSSN"]).threw
  IN  [threw |-> threw, mappings |-> IF threw THEN <<>> ELSE mappings, w2 |-> w2]

\* The bags summarised: each checklist field is absent, holds 0 or '', or
\* holds a string or a number.
SummaryBags ==
  { W2Bag([employeeName |-> a, employeeSSN |-> b, wages |-> c, federalTaxWithheld |-> d,
           socialSecurityWages |-> e, medicareWages |-> g]) :
      a \in {Undef, Str(<<>>), Str(sAlBo)},
      b \in {Undef, Str(<<>>), Str(sSsn9), Str(sSsnShort), Num(12300)},
      c \in {Undef, Num(0), Num(5000000), Str(sAmtDollar), Str(sAmtWord)},
      d \in {Undef, Num(0), Str(sAzFed)},
      e \in {Undef, Num(5000000)},
      g \in {Undef, Str(<<>>), Num(5000000)} }

\* No summary is in hand.
NoSummary ==
  [w2Data |-> EmptyW2Bag, returned |-> FALSE,
   result |-> [threw |-> FALSE, mappings |-> <<>>, w2 |-> EmptyW2Bag]]

(***************************************************************************)
(* formatSSN called on a string, and again on what it returned.            *)
(***************************************************************************)
SSNAlphabet == {"1", "-", "a"}

\* Every string over SSNAlphabet of at most MaxShortLen characters.
ShortStrings == UNION { [1..n -> SSNAlphabet] : n \in 0..MaxShortLen }

\* The digits 1, 2, ..., 9, 0, 1, ... : n of them.
DigitRun(n) ==
  [i \in 1..n |-> <<"0", "1", "2", "3", "4", "5", "6", "7", "8", "9">>[(i % 10) + 1]]

\* The digits written 3-2-rest, as an SSN is printed.
Dashed(d) ==
  SubSeq(d, 1, Min(3, Len(d)))
  \o (IF Len(d) > 3 THEN <<"-">> \o SubSeq(d, 4, Min(5, Len(d))) ELSE <<>>)
  \o (IF Len(d) > 5 THEN <<"-">> \o SubSeq(d, 6, Len(d)) ELSE <<>>)

\* A blank after every digit.
Spaced(d) == [i \in 1..(2 * Len(d)) |-> IF i % 2 = 1 THEN d[(i + 1) \div 2] ELSE " "]

\* The digits between two other characters.
Wrapped(d) == <<"x">> \o d \o <<"#">>

LongStrings ==
  UNION { { DigitRun(n), Dashed(DigitRun(n)), Spaced(DigitRun(n)), Wrapped(DigitRun(n)) } :
            n \in 0..MaxDigits }

\* No call of formatSSN is in hand.  first is what formatSSN(ssn) returned
\* and second what formatSSN(first) returned.
NoSSNCall == [ssn |-> <<>>, calls |-> 0, first |-> <<>>, second |-> <<>>]

(***************************************************************************)
(* The POST handler of src/app/api/documents/[id]/process/route.ts and the *)
(* start callback of the stream it returns.                                *)
(*   pc        the step the run is at                                      *)
(*   document  the row of the document in the database                     *)
(*   locals    extractedTaxData and duplicateDetection of the handler      *)
(*   response  what the handler returned: none, 401, 404, 500 or stream    *)
(*   stream    the state of the ReadableStream and the chunks enqueued     *)
(*   trace     what has happened in the run, kept for the properties       *)
(***************************************************************************)
NoPayload == [present |-> FALSE]

\* The row as the run finds it: a document not yet processed, or one that an
\* earlier run left FAILED or COMPLETED.
Documents ==
  { [processingStatus |-> st, documentType |-> ty, saved |-> NoPayload] :
      st \in {"PENDING", "FAILED", "COMPLETED"}, ty \in {"W2", "FORM_1099_INT"} }

\* What extractDataFromDocument resolves with.
Extractions ==
  { [fullText |-> Undef, wages |-> Undef],
    [fullText |-> Str(sAlBo), wages |-> Num(5000000)] }

\* extractedTaxData = { documentType, ocrText: extractedData.fullText || '', extractedData, confidence: 0.95 }
ExtractedTaxData(doc, extractedData) ==
  [present |-> TRUE,
   documentType |-> doc.documentType,
   ocrText |-> IF Truthy(extractedData.fullText) THEN extractedData.fullText ELSE Str(<<>>),
   extractedData |-> extractedData,
   confidence |-> 95]

MatchCriteria(documentType, others) ==
  [documentType |-> documentType, employerInfo |-> others, recipientInfo |-> others,
   amountSimilarity |-> others, nameSimilarity |-> others]

\* What checkForDuplicates resolves with.
DuplicateResults ==
  { [isDuplicate |-> FALSE, confidence |-> 0, matchingDocuments |-> <<>>,
     matchCriteria |-> MatchCriteria(TRUE, FALSE)],
    [isDuplicate |-> TRUE, confidence |-> 90, matchingDocuments |-> <<"doc-2">>,
     matchCriteria |-> MatchCriteria(TRUE, TRUE)] }

\* The result the handler takes when checkForDuplicates throws.
DefaultDuplicateDetection ==
  [isDuplicate |-> FALSE, confidence |-> 0, matchingDocuments |-> <<>>,
   matchCriteria |-> MatchCriteria(FALSE, FALSE)]

\* The content chunk: the JSON of documentType, ocrText, extractedData and
\* duplicateDetection.
ContentChunk(l) ==
  [kind |-> "content",
   payload |-> [documentType |-> l.extractedTaxData.documentType,
                ocrText |-> l.extractedTaxData.ocrText,
                extractedData |-> l.extractedTaxData.extractedData,
                duplicateDetection |-> l.duplicateDetection]]

DoneChunk == [kind |-> "done"]

\* The data of the update that saves the extraction.
SavedPayload(l) ==
  [present |-> TRUE,
   documentType |-> l.extractedTaxData.documentType,
   ocrText |-> l.extractedTaxData.ocrText,
   extractedData |-> l.extractedTaxData.extractedData,
   confidence |-> l.extractedTaxData.confidence,
   duplicateDetection |-> l.duplicateDetection]

NoLocals == [extractedTaxData |-> NoPayload, duplicateDetection |-> NoPayload]

NoStream == [state |-> "none", chunks |-> <<>>]

NoTrace ==
  [setProcessing |-> FALSE, duplicateThrew |-> FALSE, saveThrew |-> FALSE,
   completedWritten |-> FALSE, failedUpdateThrew |-> FALSE]

\* No request is in hand.
PostAtRest ==
  /\ pc = "idle"
  /\ document = [processingStatus |-> "PENDING", documentType |-> "W2", saved |-> NoPayload]
  /\ locals = NoLocals
  /\ response = "none"
  /\ stream = NoStream
  /\ trace = NoTrace

(***************************************************************************)
(* The GET handler of the form-1040 route (lines 679-800).  get holds      *)
(*   pc            the step the run is at                                  *)
(*   taxReturn     the row of the tax return                               *)
(*   documents     the extractedData column of its completed W2 documents  *)
(*   next          the index of the document the loop is at                *)
(*   form1040Data  the local of that name                                  *)
(*   mapped        the number of documents merged                          *)
(*   status        the status of the response, "none" before it            *)
(* The fields spouseFirstName, spouseLastName, spouseSSN and taxYear of    *)
(* the response and its w2MappingData are left out.                        *)
(***************************************************************************)
\* The extractedData column: null, the object the process route saves (the
\* bag under its extractedData key), or a bag stored as it is.
NullColumn == [isObject |-> FALSE, nested |-> FALSE, bag |-> EmptyBag]

Nested(bag) == [isObject |-> TRUE, nested |-> TRUE, bag |-> bag]

Bare(bag) == [isObject |-> TRUE, nested |-> FALSE, bag |-> bag]

\* extractedData.extractedData || extractedData
MapperArgument(column) == column.bag

StoredColumns ==
  { NullColumn,
    Nested(EmptyBag),
    Nested(Bag([wages |-> Num(5000000), federalTaxWithheld |-> Num(500000)])),
    Bare(Bag([wages |-> Num(5000000), federalTaxWithheld |-> Num(500000)])),
    Nested(Bag([employeeName |-> Str(sAlBo), employeeSSN |-> Str(sSsn9),
                employeeAddress |-> Str(sAddrFull), wages |-> Str(sAmtDollar),
                federalTaxWithheld |-> Str(sAmtFrac)])),
    Nested(Bag([employeeAddress |-> Str(sAddrBadZip), federalTaxWithheld |-> Num(9000000)])),
    Nested(Bag([employeeSSN |-> Num(12300)])) }

\* Every list of at most MaxDocs stored columns.
DocumentLists == UNION { [1..n -> StoredColumns] : n \in 0..MaxDocs }

\* The row of the tax return: its filing status and the taxpayer's name,
\* null or a string; the other columns read are null.
TaxReturns ==
  { [filingStatus |-> st, firstName |-> fn, lastName |-> ln] :
      st \in { Enum("SINGLE"), Enum("MARRIED_FILING_JOINTLY"), Enum("HEAD_OF_HOUSEHOLD") },
      fn \in { Undef, Str(sCy) },
      ln \in { Undef } }

\* value || ''
OrEmpty(v) == IF Truthy(v) THEN v ELSE Str(<<>>)

\* { ...form1040Data, ...mappedData }
SpreadOver(form1040Data, mappedData) ==
  [f \in FormFields |-> IF IsUndef(mappedData[f]) THEN form1040Data[f] ELSE mappedData[f]]

\* The bag as createMappingSummary reads it.
AsW2Bag(bag) == [f \in W2Fields |-> IF f \in DOMAIN bag THEN bag[f] ELSE Undef]

\* lines 767-780: the basic information of the tax return, when the fold
\* left no first name
FillBasicInfo(form1040Data, taxReturn) ==
  IF Truthy(form1040Data["firstName"]) THEN form1040Data
  ELSE [form1040Data EXCEPT !["firstName"] = OrEmpty(taxReturn.firstName),
                            !["lastName"] = OrEmpty(taxReturn.lastName),
                            !["ssn"] = Str(<<>>),
                            !["address"] = Str(<<>>),
                            !["city"] = Str(<<>>),
                            !["state"] = Str(<<>>),
                            !["zipCode"] = Str(<<>>),
                            !["filingStatus"] = taxReturn.filingStatus]

\* No request is in hand.
NoGet ==
  [pc |-> "idle", taxReturn |-> [filingStatus |-> Undef, firstName |-> Undef, lastName |-> Undef],
   documents |-> <<>>, next |-> 1, form1040Data |-> EmptyForm, mapped |-> 0,
   status |-> "none"]

(***************************************************************************)
(* Each entry point is exercised by a specification of its own; the state  *)
(* of the others stays at rest.                                            *)
(***************************************************************************)
otherVars == <<taxCall, validation, summary, ssnCall, postVars, get>>

OthersAtRest ==
  /\ taxCall = NoTaxCall
  /\ validation = NoValidation
  /\ ssnCall = NoSSNCall
  /\ summary = NoSummary
  /\ ssnCall = NoSSNCall
  /\ ssnCall = NoSSNCall
  /\ PostAtRest
  /\ get = NoGet

MapperAtRest ==
  /\ start = EmptyForm
  /\ docs = <<>>
  /\ record = EmptyForm
  /\ existingForm1040 = EmptyForm
  /\ w2Data = EmptyBag
  /\ out = [threw |-> FALSE, value |-> EmptyForm, existing |-> EmptyForm, w2 |-> EmptyBag]

(***************************************************************************)
(* The state machine: a caller folds documents into an accumulating record *)
(* by mapW2ToForm1040, one call per document.  A call that throws ends the *)
(* fold.                                                                   *)
(*   start            the record the fold started from                     *)
(*   docs             the raw bags passed so far                           *)
(*   record           the accumulating record the caller holds             *)
(*   existingForm1040 the second argument of the last call, as passed      *)
(*   w2Data           the first argument of the last call, as passed       *)
(*   out              what the last call left: see mapW2ToForm1040         *)
(***************************************************************************)
Init ==
  /\ start \in StartRecords
  /\ docs = <<>>
  /\ record = start
  /\ existingForm1040 = EmptyForm
  /\ w2Data = EmptyBag
  /\ out = [threw |-> FALSE, value |-> EmptyForm, existing |-> EmptyForm, w2 |-> EmptyBag]
  /\ OthersAtRest

\* The caller may make another call: the fold is within its bound and has not thrown.
CanCall == Len(docs) < MaxDocs /\ ~out.threw

\* The caller merges a raw bag it holds.
MergeDocument ==
  \E w2 \in RawDocs :
    /\ CanCall
    /\ docs' = Append(docs, w2)
    /\ existingForm1040' = record
    /\ w2Data' = w2
    /\ out' = mapW2ToForm1040(w2, record)
    /\ record' = IF out'.threw THEN record ELSE out'.value
    /\ UNCHANGED <<start, otherVars>>

\* The caller merges what processW2Fields made of an analysed W2.
MergeExtracted ==
  \E fields \in AzureDocs :
    /\ CanCall
    /\ docs' = Append(docs, processW2Fields(fields))
    /\ existingForm1040' = record
    /\ w2Data' = processW2Fields(fields)
    /\ out' = mapW2ToForm1040(processW2Fields(fields), record)
    /\ record' = IF out'.threw THEN record ELSE out'.value
    /\ UNCHANGED <<start, otherVars>>

Next == MergeDocument \/ MergeExtracted

Spec == Init /\ [][Next]_vars

(***************************************************************************)
(* calculateTaxLiability called on its own.                                *)
(***************************************************************************)
InitTax ==
  /\ taxCall \in TaxCalls
  /\ MapperAtRest
  /\ PostAtRest
  /\ get = NoGet
  /\ validation = NoValidation
  /\ summary = NoSummary
  /\ ssnCall = NoSSNCall

CalculateTax ==
  /\ ~taxCall.returned
  /\ taxCall' = [taxCall EXCEPT !.returned = TRUE,
                                !.tax = calculateTaxLiability(taxCall.taxableIncome,
                                                              taxCall.filingStatus)]
  /\ UNCHANGED <<mapperVars, validation, summary, ssnCall, postVars, get>>

NextTax == CalculateTax

SpecTax == InitTax /\ [][NextTax]_vars

(***************************************************************************)
(* validateW2DataForMapping called on a raw bag, or on what                *)
(* processW2Document returns for it.                                       *)
(***************************************************************************)
InitValidate ==
  /\ validation \in { [NoValidation EXCEPT !.w2Data = b] : b \in ValidatorBags }
  /\ MapperAtRest
  /\ PostAtRest
  /\ get = NoGet
  /\ taxCall = NoTaxCall
  /\ summary = NoSummary
  /\ ssnCall = NoSSNCall

ValidateRaw ==
  /\ validation.source = "none"
  /\ validation' = [validation EXCEPT !.source = "raw", !.returned = TRUE,
                                      !.result = validateW2DataForMapping(validation.w2Data)]
  /\ UNCHANGED <<mapperVars, taxCall, summary, ssnCall, postVars, get>>

ValidateProcessed ==
  /\ validation.source = "none"
  /\ validation' = [validation EXCEPT
                      !.w2Data = processW2Document(validation.w2Data),
                      !.source = "processed", !.returned = TRUE,
                      !.result = validateW2DataForMapping(processW2Document(validation.w2Data))]
  /\ UNCHANGED <<mapperVars, taxCall, summary, ssnCall, postVars, get>>

NextValidate == ValidateRaw \/ ValidateProcessed

SpecValidate == InitValidate /\ [][NextValidate]_vars

(***************************************************************************)
(* createMappingSummary called on a bag.                                   *)
(***************************************************************************)
InitSummary ==
  /\ summary \in { [NoSummary EXCEPT !.w2Data = b] : b \in SummaryBags }
  /\ MapperAtRest
  /\ PostAtRest
  /\ get = NoGet
  /\ taxCall = NoTaxCall
  /\ validation = NoValidation
  /\ ssnCall = NoSSNCall

Summarize ==
  /\ ~summary.returned
  /\ summary' = [summary EXCEPT !.returned = TRUE,
                                !.result = createMappingSummary(summary.w2Data)]
  /\ UNCHANGED <<mapperVars, taxCall, validation, ssnCall, postVars, get>>

NextSummary == Summarize

SpecSummary == InitSummary /\ [][NextSummary]_vars

(***************************************************************************)
(* formatSSN called on a string, then on its own result.                   *)
(***************************************************************************)
InitSSN ==
  /\ ssnCall \in { [NoSSNCall EXCEPT !.ssn = s] : s \in ShortStrings \cup LongStrings }
  /\ MapperAtRest
  /\ PostAtRest
  /\ get = NoGet
  /\ taxCall = NoTaxCall
  /\ validation = NoValidation
  /\ summary = NoSummary

FormatOnce ==
  /\ ssnCall.calls = 0
  /\ ssnCall' = [ssnCall EXCEPT !.calls = 1, !.first = formatSSN(Str(ssnCall.ssn)).value]
  /\ UNCHANGED <<mapperVars, taxCall, validation, summary, postVars, get>>

FormatAgain ==
  /\ ssnCall.calls = 1
  /\ ssnCall' = [ssnCall EXCEPT !.calls = 2, !.second = formatSSN(Str(ssnCall.first)).value]
  /\ UNCHANGED <<mapperVars, taxCall, validation, summary, postVars, get>>

NextSSN == FormatOnce \/ FormatAgain

SpecSSN == InitSSN /\ [][NextSSN]_vars

(***************************************************************************)
(* One run of POST.  Every awaited call may resolve or reject; the client  *)
(* may cancel the response stream while the save is awaited.               *)
(***************************************************************************)
InitPost ==
  /\ pc = "session"
  /\ document \in Documents
  /\ locals = NoLocals
  /\ response = "none"
  /\ stream = NoStream
  /\ trace = NoTrace
  /\ MapperAtRest
  /\ taxCall = NoTaxCall
  /\ validation = NoValidation
  /\ summary = NoSummary
  /\ ssnCall = NoSSNCall
  /\ get = NoGet

\* What a run of POST leaves alone.
nonPostVars == <<mapperVars, taxCall, validation, summary, ssnCall, get>>

\* The handler returns a JSON response with the status.
Return(status) == response' = status /\ pc' = "done"

\* await prisma.document.update({ data: { processingStatus: 'FAILED' } }) resolves
MarkFailed == document' = [document EXCEPT !.processingStatus = "FAILED"]

\* ... or rejects
MarkFailedThrows ==
  /\ trace' = [trace EXCEPT !.failedUpdateThrew = TRUE]
  /\ UNCHANGED document

\* lines 19-25: the session, or 401 without one
GetSession ==
  /\ pc = "session"
  /\ \/ pc' = "findUser" /\ UNCHANGED response
     \/ Return("401")
     \/ pc' = "outerCatch" /\ UNCHANGED response
  /\ UNCHANGED <<document, locals, stream, trace>>
  /\ UNCHANGED nonPostVars

\* lines 28-36: the user, or 404
FindUser ==
  /\ pc = "findUser"
  /\ \/ pc' = "findDocument" /\ UNCHANGED response
     \/ Return("404")
     \/ pc' = "outerCatch" /\ UNCHANGED response
  /\ UNCHANGED <<document, locals, stream, trace>>
  /\ UNCHANGED nonPostVars

\* lines 39-57: the document of that user, or 404
FindDocument ==
  /\ pc = "findDocument"
  /\ \/ pc' = "setProcessing" /\ UNCHANGED response
     \/ Return("404")
     \/ pc' = "outerCatch" /\ UNCHANGED response
  /\ UNCHANGED <<document, locals, stream, trace>>
  /\ UNCHANGED nonPostVars

\* lines 60-64: processingStatus PROCESSING
SetProcessing ==
  /\ pc = "setProcessing"
  /\ \/ /\ document' = [document EXCEPT !.processingStatus = "PROCESSING"]
        /\ trace' = [trace EXCEPT !.setProcessing = TRUE]
        /\ pc' = "checkConfig"
     \/ pc' = "outerCatch" /\ UNCHANGED <<document, trace>>
  /\ UNCHANGED <<locals, response, stream>>
  /\ UNCHANGED nonPostVars

\* lines 67-82: without the endpoint or the key, FAILED and 500
CheckConfig ==
  /\ pc = "checkConfig"
  /\ \/ pc' = "extract" /\ UNCHANGED <<document, response, trace>>
     \/ MarkFailed /\ Return("500") /\ UNCHANGED trace
     \/ MarkFailedThrows /\ pc' = "outerCatch" /\ UNCHANGED response
  /\ UNCHANGED <<locals, stream>>
  /\ UNCHANGED nonPostVars

\* lines 87-108: the extraction, or FAILED and 500 when it throws
Extract ==
  /\ pc = "extract"
  /\ \/ \E extractedData \in Extractions :
          /\ locals' = [locals EXCEPT !.extractedTaxData =
                                        ExtractedTaxData(document, extractedData)]
          /\ pc' = "duplicates"
          /\ UNCHANGED <<document, response, trace>>
     \/ MarkFailed /\ Return("500") /\ UNCHANGED <<locals, trace>>
     \/ MarkFailedThrows /\ pc' = "outerCatch" /\ UNCHANGED <<locals, response>>
  /\ UNCHANGED stream
  /\ UNCHANGED nonPostVars

\* A variant of DetectDuplicates whose catch rethrows.
DetectDuplicatesRethrows ==
  /\ pc = "duplicates"
  /\ \/ \E result \in DuplicateResults :
          /\ locals' = [locals EXCEPT !.duplicateDetection = result]
          /\ pc' = "openStream"
          /\ UNCHANGED trace
     \/ /\ trace' = [trace EXCEPT !.duplicateThrew = TRUE]
        /\ pc' = "outerCatch"
        /\ UNCHANGED locals
  /\ UNCHANGED <<document, response, stream>>
  /\ UNCHANGED nonPostVars

\* lines 113-140: the duplicate detection, or the default result when it throws
DetectDuplicates ==
  /\ pc = "duplicates"
  /\ \/ \E result \in DuplicateResults :
          /\ locals' = [locals EXCEPT !.duplicateDetection = result]
          /\ UNCHANGED trace
     \/ /\ locals' = [locals EXCEPT !.duplicateDetection = DefaultDuplicateDetection]
        /\ trace' = [trace EXCEPT !.duplicateThrew = TRUE]
  /\ pc' = "openStream"
  /\ UNCHANGED <<document, response, stream>>
  /\ UNCHANGED nonPostVars

\* lines 152-168, 173, 205-210: the stream is constructed, start runs up to
\* its first await (the content chunk is enqueued and the save is issued),
\* and the handler returns the streaming response.
OpenStream ==
  /\ pc = "openStream"
  /\ stream' = [state |-> "readable", chunks |-> <<ContentChunk(locals)>>]
  /\ response' = "stream"
  /\ pc' = "save"
  /\ UNCHANGED <<document, locals, trace>>
  /\ UNCHANGED nonPostVars

\* The client cancels the response while the save is awaited; the stream is
\* closed to the controller from then on.
ClientCancels ==
  /\ pc = "save"
  /\ stream.state = "readable"
  /\ stream' = [stream EXCEPT !.state = "cancelled"]
  /\ UNCHANGED <<pc, document, locals, response, trace>>
  /\ UNCHANGED nonPostVars

\* lines 173-187: the save of the extraction with processingStatus COMPLETED
Save ==
  /\ pc = "save"
  /\ \/ /\ document' = [document EXCEPT !.processingStatus = "COMPLETED",
                                         !.saved = SavedPayload(locals)]
        /\ trace' = [trace EXCEPT !.completedWritten = TRUE]
        /\ pc' = "sendDone"
     \/ /\ trace' = [trace EXCEPT !.saveThrew = TRUE]
        /\ pc' = "streamCatch"
        /\ UNCHANGED document
  /\ UNCHANGED <<locals, response, stream>>
  /\ UNCHANGED nonPostVars

\* lines 190-192: enqueue of [DONE] and close; enqueue throws a TypeError on
\* a stream that is no longer readable.
SendDone ==
  /\ pc = "sendDone"
  /\ IF stream.state = "readable"
       THEN /\ stream' = [state |-> "closed", chunks |-> Append(stream.chunks, DoneChunk)]
            /\ pc' = "done"
       ELSE /\ pc' = "streamCatch"
            /\ UNCHANGED stream
  /\ UNCHANGED <<document, locals, response, trace>>
  /\ UNCHANGED nonPostVars

\* controller.error(error): a readable stream becomes errored
ControllerError ==
  stream' = IF stream.state = "readable" THEN [stream EXCEPT !.state = "errored"] ELSE stream

\* A variant of StreamCatch that only errors the stream.
StreamCatchWithoutUpdate ==
  /\ pc = "streamCatch"
  /\ ControllerError
  /\ pc' = "done"
  /\ UNCHANGED <<document, locals, response, trace>>
  /\ UNCHANGED nonPostVars

\* lines 193-201: the catch of start: FAILED, then controller.error; when
\* the update rejects, start rejects and the stream is errored all the same.
StreamCatch ==
  /\ pc = "streamCatch"
  /\ \/ MarkFailed /\ UNCHANGED trace
     \/ MarkFailedThrows
  /\ ControllerError
  /\ pc' = "done"
  /\ UNCHANGED <<locals, response>>
  /\ UNCHANGED nonPostVars

\* lines 212-231: the catch of the handler: FAILED (a rejection of the
\* update is only logged), then 500
OuterCatch ==
  /\ pc = "outerCatch"
  /\ \/ MarkFailed /\ UNCHANGED trace
     \/ MarkFailedThrows
  /\ Return("500")
  /\ UNCHANGED <<locals, stream>>
  /\ UNCHANGED nonPostVars

NextPost ==
  \/ GetSession \/ FindUser \/ FindDocument \/ SetProcessing \/ CheckConfig
  \/ Extract \/ DetectDuplicates \/ OpenStream \/ ClientCancels \/ Save
  \/ SendDone \/ StreamCatch \/ OuterCatch

SpecPost == InitPost /\ [][NextPost]_vars

(***************************************************************************)
(* One run of GET over a tax return and its completed W2 documents.        *)
(***************************************************************************)
InitGet ==
  /\ get \in { [NoGet EXCEPT !.pc = "load", !.taxReturn = t, !.documents = d] :
                t \in TaxReturns, d \in DocumentLists }
  /\ MapperAtRest
  /\ taxCall = NoTaxCall
  /\ validation = NoValidation
  /\ summary = NoSummary
  /\ ssnCall = NoSSNCall
  /\ PostAtRest

\* What a run of GET leaves alone.
nonGetVars == <<mapperVars, taxCall, validation, summary, ssnCall, postVars>>

\* lines 684-726: the session, the user and the tax return; 401 or 404
\* without one of them, 500 when a lookup throws.
LoadTaxReturn ==
  /\ get.pc = "load"
  /\ \/ get' = [get EXCEPT !.pc = "loop"]
     \/ \E st \in {"401", "404", "500"} : get' = [get EXCEPT !.pc = "done", !.status = st]
  /\ UNCHANGED nonGetVars

\* lines 739-764: one turn of the loop.  A column that is not an object is
\* passed over; a throw of the mapper or of the summary ends in the catch
\* of the handler (lines 792-798) with 500.
MapDocument ==
  /\ get.pc = "loop"
  /\ get.next <= Len(get.documents)
  /\ LET column == get.documents[get.next]
         call   == mapW2ToForm1040(MapperArgument(column), get.form1040Data)
         listed == createMappingSummary(AsW2Bag(MapperArgument(column)))
     IN  IF ~column.isObject
           THEN get' = [get EXCEPT !.next = get.next + 1]
         ELSE IF call.threw \/ listed.threw
           THEN get' = [get EXCEPT !.pc = "done", !.status = "500"]
         ELSE get' = [get EXCEPT !.next = get.next + 1,
                                 !.mapped = get.mapped + 1,
                                 !.form1040Data = SpreadOver(get.form1040Data, call.value)]
  /\ UNCHANGED nonGetVars

\* lines 767-791: the basic information, then the response
Respond ==
  /\ get.pc = "loop"
  /\ get.next > Len(get.documents)
  /\ get' = [get EXCEPT !.pc = "done", !.status = "200",
                        !.form1040Data = FillBasicInfo(get.form1040Data, get.taxReturn)]
  /\ UNCHANGED nonGetVars

NextGet == LoadTaxReturn \/ MapDocument \/ Respond

SpecGet == InitGet /\ [][NextGet]_vars

(***************************************************************************)
(* Definitions the properties share                                        *)
(***************************************************************************)
\* A call has been made; the last call returned a record.
Called == docs # <<>>

Returned == Called /\ ~out.threw

\* Every raw bag the model passes to the mapper.
AllDocs == RawDocs \cup {processW2Fields(fields) : fields \in AzureDocs}

\* Folding a sequence of raw bags into a record, as the caller does.
RECURSIVE Fold(_, _)
Fold(seq, rec) ==
  IF seq = <<>> THEN [threw |-> FALSE, value |-> rec]
  ELSE LET o == mapW2ToForm1040(Head(seq), rec)
       IN  IF o.threw THEN [threw |-> TRUE, value |-> rec] ELSE Fold(Tail(seq), o.value)

\* The sum of the strictly positive parsed amounts of one raw field over a sequence.
RECURSIVE SumPositive(_, _)
SumPositive(seq, rawField) ==
  IF seq = <<>> THEN 0
  ELSE LET a == parseAmount(Head(seq)[rawField])
       IN  (IF a > 0 THEN a ELSE 0) + SumPositive(Tail(seq), rawField)

\* The sum of a record's lines named in a set, absent lines as zero.
RECURSIVE SumSet(_, _)
SumSet(rec, names) ==
  IF names = {} THEN 0
  ELSE LET n == CHOOSE x \in names : TRUE
       IN  OrZero(rec[n]) + SumSet(rec, names \ {n})

\* The parsed wages and withholding of the last raw bag.
LastWages == parseAmount(w2Data["wages"])

LastWithheld == parseAmount(w2Data["federalTaxWithheld"])

(***************************************************************************)
(* C1.  mapW2ToForm1040 never throws: every call, whatever strings and     *)
(* numbers the raw bag holds, returns a record.                            *)
(* Refuted by the code: a truthy number in employeeName, employeeSSN or    *)
(* employeeAddress reaches trim, replace or split and throws a TypeError.  *)
(***************************************************************************)
C1_MergeNeverThrows == Called => ~out.threw

(***************************************************************************)
(* C2.  Re-merge idempotence: merging the raw bag just merged into the     *)
(* record that merge returned gives that record again.                     *)
(* As stated it is refuted (a positive amount is added a second time).     *)
(* Amended: it holds when the parsed wages and the parsed withholding of   *)
(* the bag are both not strictly positive.                                 *)
(***************************************************************************)
C2_RemergeIdempotent ==
  Returned =>
    LET again == mapW2ToForm1040(w2Data, out.value)
    IN  ~again.threw /\ again.value = out.value

C2_RemergeIdempotentWithoutAmounts ==
  (Returned /\ ~(LastWages > 0) /\ ~(LastWithheld > 0)) =>
    LET again == mapW2ToForm1040(w2Data, out.value)
    IN  ~again.threw /\ again.value = out.value

\* A bag with a name, an identifier, an address and a negative wage string was
\* merged, changed the record, and merges again into its own result unchanged.
C2_Witness ==
  /\ Returned
  /\ ~(LastWages > 0) /\ ~(LastWithheld > 0)
  /\ LastWages < 0
  /\ Truthy(w2Data["employeeSSN"]) /\ Truthy(w2Data["employeeAddress"])
  /\ out.value # existingForm1040
  /\ mapW2ToForm1040(w2Data, out.value).value = out.value

(***************************************************************************)
(* C3.  Identity fields are first-write-wins, field by field: a field of   *)
(* the existing record that holds a value has the same value in the        *)
(* record merge returns.                                                   *)
(* Refuted by the code: the name is guarded by firstName alone and the     *)
(* address parts by address alone.                                         *)
(***************************************************************************)
C3_IdentityFirstWriteWins ==
  Returned =>
    \A f \in IdentityFields :
      Truthy(existingForm1040[f]) => out.value[f] = existingForm1040[f]

(***************************************************************************)
(* C4.  Monetary accumulation: the returned line1 is the existing line1    *)
(* (0 if absent) plus the parsed wages when they are strictly positive,    *)
(* and the existing line1 unchanged otherwise; the same for line25a and    *)
(* federalTaxWithheld.  After a fold from the empty record, line1 and      *)
(* line25a are the sums of the strictly positive parsed amounts.           *)
(***************************************************************************)
\* What parseFloat makes of the amount strings of the model, in cents.
C4_ParsedSamples ==
  /\ parseAmount(Str(sAmtDollar)) = 150000
  /\ parseAmount(Str(sAmtWord)) = 0
  /\ parseAmount(Str(sAmtNeg)) = 0 - 500
  /\ parseAmount(Str(sAmtFrac)) = 150
  /\ parseAmount(Str(sAmtTail)) = 1200
  /\ parseAmount(Num(0 - 100)) = 0 - 100
  /\ parseAmount(Undef) = 0

C4_MonetaryAccumulation ==
  Returned =>
    /\ C4_ParsedSamples
    /\ IF LastWages > 0
         THEN out.value["line1"] = Num(OrZero(existingForm1040["line1"]) + LastWages)
         ELSE out.value["line1"] = existingForm1040["line1"]
    /\ IF LastWithheld > 0
         THEN out.value["line25a"] = Num(OrZero(existingForm1040["line25a"]) + LastWithheld)
         ELSE out.value["line25a"] = existingForm1040["line25a"]
    /\ start = EmptyForm =>
         /\ OrZero(record["line1"]) = SumPositive(docs, "wages")
         /\ OrZero(record["line25a"]) = SumPositive(docs, "federalTaxWithheld")

\* Two documents were folded into the empty record: one with wages "$1,500"
\* and withholding "1.5", one with wages 50000 and withholding 5000.
C4_Witness ==
  /\ Returned
  /\ start = EmptyForm
  /\ Len(docs) = 2
  /\ docs[1]["wages"] = Str(sAmtDollar)
  /\ docs[2]["wages"] = Num(5000000)
  /\ record["line1"] = Num(5150000)
  /\ record["line25a"] = Num(500150)

(***************************************************************************)
(* C5.  Order independence of the totals: folding A then B and folding B   *)
(* then A into the same starting record end alike, with the same line9     *)
(* and the same line32.                                                    *)
(* Refuted by the code through the throw of C1: one order can throw where  *)
(* the other returns.                                                      *)
(***************************************************************************)
C5_OrderIndependentTotals ==
  Len(docs) = 1 =>
    \A b \in AllDocs :
      LET ab == Fold(<<docs[1], b>>, start)
          ba == Fold(<<b, docs[1]>>, start)
      IN  /\ ab.threw = ba.threw
          /\ ~ab.threw =>
               /\ ab.value["line9"] = ba.value["line9"]
               /\ ab.value["line32"] = ba.value["line32"]

\* What remains of C5 in the code: when both orders return, the totals agree.
C5_TotalsAgreeWhenBothReturn ==
  Len(docs) = 1 =>
    \A b \in AllDocs :
      LET ab == Fold(<<docs[1], b>>, start)
          ba == Fold(<<b, docs[1]>>, start)
      IN  (~ab.threw /\ ~ba.threw) =>
            /\ ab.value["line9"] = ba.value["line9"]
            /\ ab.value["line32"] = ba.value["line32"]

(***************************************************************************)
(* C6.  mapW2ToForm1040 never mutates its arguments: after the call        *)
(* returns, the caller's existingForm1040 and w2Data objects hold what     *)
(* they held before it.                                                    *)
(***************************************************************************)
C6_ArgumentsNotMutated ==
  Returned => (out.existing = existingForm1040 /\ out.w2 = w2Data)

\* A call that changed identity and money lines in the record it returned.
C6_Witness ==
  /\ Returned
  /\ out.value["firstName"] # existingForm1040["firstName"]
  /\ out.value["line1"] # existingForm1040["line1"]
  /\ out.value["line9"] # existingForm1040["line9"]
  /\ out.existing = existingForm1040

(***************************************************************************)
(* C7.  Standard deduction rule: a line12 that is set in the existing      *)
(* record (to any value, 0 included) is left untouched; an unset line12    *)
(* with a known filing status is set from the table; with no filing        *)
(* status an unset line12 stays unset.                                     *)
(* Refuted by the code: a line12 set to 0 is recomputed from the table.    *)
(***************************************************************************)
C7_Table(status) ==
  CASE status = "SINGLE" -> 1385000
    [] status = "MARRIED_FILING_SEPARATELY" -> 1385000
    [] status = "MARRIED_FILING_JOINTLY" -> 2770000
    [] status = "QUALIFYING_SURVIVING_SPOUSE" -> 2770000
    [] status = "HEAD_OF_HOUSEHOLD" -> 2080000
    [] OTHER -> 1385000

C7_StandardDeductionRule ==
  Returned =>
    LET old    == existingForm1040["line12"]
        status == existingForm1040["filingStatus"]
    IN  /\ ~IsUndef(old) => out.value["line12"] = old
        /\ (IsUndef(old) /\ ~IsUndef(status)) =>
             out.value["line12"] = Num(C7_Table(status.enum))
        /\ (IsUndef(old) /\ IsUndef(status)) => IsUndef(out.value["line12"])

(***************************************************************************)
(* C8.  Total income: the returned line9 is the wages line plus the other  *)
(* income lines, absent lines as zero, line11 equals line9, and prior      *)
(* values of both are overwritten.                                         *)
(* As stated ("five" other income lines) it is refuted: no five of the     *)
(* other lines give line9.  Amended: the other income lines are the seven  *)
(* lines 2b, 3b, 4b, 5b, 6b, 7 and 8.                                      *)
(***************************************************************************)
OtherIncomeLines == {"line2b", "line3b", "line4b", "line5b", "line6b", "line7", "line8"}

C8_TotalIncomeFiveOtherLines ==
  Returned =>
    /\ \E five \in SUBSET OtherIncomeLines :
         /\ Cardinality(five) = 5
         /\ out.value["line9"] = Num(OrZero(out.value["line1"]) + SumSet(out.value, five))
    /\ out.value["line11"] = out.value["line9"]

C8_TotalIncomeSevenOtherLines ==
  Returned =>
    /\ out.value["line9"] =
         Num(OrZero(out.value["line1"]) + SumSet(out.value, OtherIncomeLines))
    /\ out.value["line11"] = out.value["line9"]

\* A record with every income line set and stale line9 and line11 was merged
\* with a bag that adds wages.
C8_Witness ==
  /\ Returned
  /\ LastWages > 0
  /\ \A l \in OtherIncomeLines : OrZero(existingForm1040[l]) > 0
  /\ existingForm1040["line9"] = Num(5)
  /\ existingForm1040["line11"] = Num(7)
  /\ out.value["line9"] # existingForm1040["line9"]
  /\ out.value["line11"] = out.value["line9"]

(***************************************************************************)
(* C9.  Settlement: in every returned record line24 = line16 + line17 +    *)
(* line23 and line32 = line25a + line25b + line25c + line25d (absent lines *)
(* as zero); if line32 > line24 then line33 = line34 = line32 - line24 and *)
(* line37 = 0, otherwise line37 = line24 - line32 and line33 = line34 = 0. *)
(* Refund and amount owed are never both non-zero, and all three are 0     *)
(* when payments equal tax.                                                *)
(***************************************************************************)
C9_Settlement ==
  Returned =>
    LET v   == out.value
        l24 == OrZero(v["line16"]) + OrZero(v["line17"]) + OrZero(v["line23"])
        l32 == OrZero(v["line25a"]) + OrZero(v["line25b"]) + OrZero(v["line25c"])
               + OrZero(v["line25d"])
    IN  /\ v["line24"] = Num(l24)
        /\ v["line32"] = Num(l32)
        /\ IF l32 > l24
             THEN v["line33"] = Num(l32 - l24) /\ v["line34"] = Num(l32 - l24)
                  /\ v["line37"] = Num(0)
             ELSE v["line37"] = Num(l24 - l32) /\ v["line33"] = Num(0)
                  /\ v["line34"] = Num(0)
        /\ ~(v["line33"] # Num(0) /\ v["line37"] # Num(0))
        /\ l32 = l24 =>
             (v["line33"] = Num(0) /\ v["line34"] = Num(0) /\ v["line37"] = Num(0))

\* A refund over a record whose stale line37 was not 0 and whose other tax
\* and payment lines are set.
C9_Witness ==
  /\ Returned
  /\ existingForm1040["line37"] = Num(21)
  /\ OrZero(out.value["line17"]) > 0 /\ OrZero(out.value["line25d"]) > 0
  /\ OrZero(out.value["line33"]) > 0
  /\ out.value["line37"] = Num(0)

\* An amount owed: tax above the payments.
C9_WitnessOwed ==
  /\ Returned
  /\ OrZero(out.value["line16"]) > 0
  /\ OrZero(out.value["line37"]) > 0
  /\ out.value["line33"] = Num(0)

(***************************************************************************)
(* C10.  Worked example: wages 50000 and federalTaxWithheld 5000 merged    *)
(* into a record that holds only filingStatus SINGLE give line9 = line11 = *)
(* 50000, line12 = 13850, line15 = 36150, line16 = line24 = 4118.00,       *)
(* line32 = 5000, line33 = 882.00 and line37 = 0.                          *)
(***************************************************************************)
C10_ExampleCall ==
  /\ Called
  /\ existingForm1040 = Form([filingStatus |-> Enum("SINGLE")])
  /\ w2Data = Bag([wages |-> Num(5000000), federalTaxWithheld |-> Num(500000)])

C10_WorkedExample ==
  C10_ExampleCall =>
    /\ ~out.threw
    /\ out.value["line9"] = Num(5000000)
    /\ out.value["line11"] = Num(5000000)
    /\ out.value["line12"] = Num(1385000)
    /\ out.value["line15"] = Num(3615000)
    /\ out.value["line16"] = Num(411800)
    /\ out.value["line24"] = Num(411800)
    /\ out.value["line32"] = Num(500000)
    /\ out.value["line33"] = Num(88200)
    /\ out.value["line37"] = Num(0)

C10_Witness == C10_ExampleCall /\ Len(docs) = 1 /\ record = out.value

(***************************************************************************)
(* C11: calculateTaxLiability walks the married-filing-jointly table only  *)
(* for MARRIED_FILING_JOINTLY and the single table for every other or      *)
(* absent status; what it returns is the sum, over the brackets of that    *)
(* table, of the rate times the part of the taxable income lying between   *)
(* the bracket's bounds, rounded to the cent.  An income equal to a        *)
(* bracket's upper bound has no part in the next bracket (11000 single     *)
(* gives 1100).                                                            *)
(***************************************************************************)
\* The part of income lying in bracket b, in cents.
C11_PartIn(b, income) ==
  IF income <= b.min THEN 0
  ELSE IF b.inf \/ income <= b.max THEN income - b.min
  ELSE b.max - b.min

RECURSIVE C11_SumFrom(_, _, _)
C11_SumFrom(brackets, i, income) ==
  IF i > Len(brackets) THEN 0
  ELSE brackets[i].rate * C11_PartIn(brackets[i], income) + C11_SumFrom(brackets, i + 1, income)

C11_TableFor(status) ==
  IF status = Enum("MARRIED_FILING_JOINTLY")
    THEN << [min |-> 0, max |-> 2200000, inf |-> FALSE, rate |-> 10],
            [min |-> 2200000, max |-> 8945000, inf |-> FALSE, rate |-> 12],
            [min |-> 8945000, max |-> 19075000, inf |-> FALSE, rate |-> 22],
            [min |-> 19075000, max |-> 36420000, inf |-> FALSE, rate |-> 24],
            [min |-> 36420000, max |-> 46250000, inf |-> FALSE, rate |-> 32],
            [min |-> 46250000, max |-> 69375000, inf |-> FALSE, rate |-> 35],
            [min |-> 69375000, max |-> 0, inf |-> TRUE, rate |-> 37] >>
    ELSE << [min |-> 0, max |-> 1100000, inf |-> FALSE, rate |-> 10],
            [min |-> 1100000, max |-> 4472500, inf |-> FALSE, rate |-> 12],
            [min |-> 4472500, max |-> 9537500, inf |-> FALSE, rate |-> 22],
            [min |-> 9537500, max |-> 18205000, inf |-> FALSE, rate |-> 24],
            [min |-> 18205000, max |-> 23125000, inf |-> FALSE, rate |-> 32],
            [min |-> 23125000, max |-> 57812500, inf |-> FALSE, rate |-> 35],
            [min |-> 57812500, max |-> 0, inf |-> TRUE, rate |-> 37] >>

C11_BracketSum ==
  taxCall.returned =>
    LET table == C11_TableFor(taxCall.filingStatus)
        t == taxCall.taxableIncome
    IN  /\ taxCall.tax = (C11_SumFrom(table, 1, t) + 50) \div 100
        /\ \A i \in 1..(Len(table) - 1) :
              t = table[i].max =>
                /\ C11_PartIn(table[i + 1], t) = 0
                /\ taxCall.tax = (C11_SumFrom(SubSeq(table, 1, i), 1, t) + 50) \div 100
        /\ (t = 1100000 /\ taxCall.filingStatus = Enum("SINGLE")) => taxCall.tax = 110000
        /\ (t = 2200000 /\ taxCall.filingStatus = Enum("MARRIED_FILING_JOINTLY"))
              => taxCall.tax = 220000

\* A returned call on an income exactly at the top of the second single bracket.
C11_Witness ==
  /\ taxCall.returned
  /\ taxCall.filingStatus = Enum("HEAD_OF_HOUSEHOLD")
  /\ taxCall.taxableIncome = 4472500
  /\ taxCall.tax = 514700

(***************************************************************************)
(* C12: in every record a merge returns, line15 is the greater of 0 and    *)
(* line11 - line12 - line13 and is never negative; when that difference    *)
(* is 0 or less, line15 and line16 are both exactly 0, whatever the filing *)
(* status.                                                                 *)
(***************************************************************************)
C12_Difference(v) == OrZero(v["line11"]) - OrZero(v["line12"]) - OrZero(v["line13"])

C12_TaxableIncomeFloor ==
  Returned =>
    LET v == out.value
        d == C12_Difference(v)
    IN  /\ v["line15"] = Num(IF d > 0 THEN d ELSE 0)
        /\ v["line15"].num >= 0
        /\ d <= 0 => (v["line15"] = Num(0) /\ v["line16"] = Num(0))

\* Deductions above the adjusted gross income of a record with wages.
C12_Witness ==
  /\ Returned
  /\ OrZero(out.value["line11"]) > 0
  /\ C12_Difference(out.value) < 0
  /\ out.value["line15"] = Num(0)
  /\ out.value["line16"] = Num(0)

\* The difference exactly 0.
C12_WitnessZero ==
  /\ Returned
  /\ C12_Difference(out.value) = 0
  /\ out.value["line16"] = Num(0)

(***************************************************************************)
(* C17: a record a merge returned is a fixed point of merging the empty    *)
(* bag: the merge returns, and what it returns equals the record in every  *)
(* field, the derived lines 9, 11, 12, 15, 16, 24, 32, 33, 34 and 37       *)
(* included.                                                               *)
(***************************************************************************)
C17_EmptyMergeFixedPoint ==
  Returned =>
    LET again == mapW2ToForm1040(EmptyBag, out.value)
    IN  /\ ~again.threw
        /\ \A f \in FormFields : again.value[f] = out.value[f]

\* The caller merged the empty bag into the record of an earlier merge that
\* holds tax and payments.
C17_Witness ==
  /\ Returned
  /\ Len(docs) = 2 /\ docs[2] = EmptyBag
  /\ OrZero(existingForm1040["line16"]) > 0
  /\ OrZero(existingForm1040["line32"]) > 0
  /\ out.value = existingForm1040

(***************************************************************************)
(* C13: validateW2DataForMapping returns isValid true exactly when its     *)
(* errors list is empty, so warnings never change isValid.  The empty bag  *)
(* gives isValid false, exactly the three errors (wages, identifier, name) *)
(* and three warnings.  A bag in which wages, identifier and name are      *)
(* present and federalTaxWithheld, employerName and employerEIN are not    *)
(* gives isValid true, no errors and exactly three warnings.               *)
(***************************************************************************)
C13_Present(w2, fields) == \E f \in fields : ~IsUndef(w2[f])

C13_HasValue(w2, fields) == \E f \in fields : Truthy(w2[f])

C13_ThreeWarnings == <<WithheldWarning, EmployerNameWarning, EmployerEINWarning>>

C13_ValidityAndExamples ==
  validation.returned =>
    LET w2 == validation.w2Data
        r  == validation.result
    IN  /\ r.isValid <=> r.errors = <<>>
        /\ w2 = EmptyW2Bag =>
              /\ ~r.isValid
              /\ r.errors = <<WagesError, SSNError, NameError>>
              /\ r.warnings = C13_ThreeWarnings
        /\ ( /\ C13_Present(w2, {"wages", "line1"})
             /\ C13_Present(w2, {"employeeSSN", "ssn"})
             /\ C13_Present(w2, {"employeeName", "firstName", "lastName"})
             /\ ~C13_Present(w2, {"federalTaxWithheld", "employerName", "employerEIN"}) )
              => (r.isValid /\ r.errors = <<>> /\ r.warnings = C13_ThreeWarnings)

\* The same statement for bags whose wages, identifier and name hold a value
\* other than 0 and ''.
C13_ValidityAndExamplesWithValues ==
  validation.returned =>
    LET w2 == validation.w2Data
        r  == validation.result
    IN  /\ r.isValid <=> r.errors = <<>>
        /\ w2 = EmptyW2Bag =>
              /\ ~r.isValid
              /\ r.errors = <<WagesError, SSNError, NameError>>
              /\ r.warnings = C13_ThreeWarnings
        /\ ( /\ C13_HasValue(w2, {"wages", "line1"})
             /\ C13_HasValue(w2, {"employeeSSN", "ssn"})
             /\ C13_HasValue(w2, {"employeeName", "firstName", "lastName"})
             /\ ~C13_Present(w2, {"federalTaxWithheld", "employerName", "employerEIN"}) )
              => (r.isValid /\ r.errors = <<>> /\ r.warnings = C13_ThreeWarnings)

(***************************************************************************)
(* C14: the validator checks presence only.  The wages error is reported   *)
(* exactly when the bag holds neither wages nor line1, the identifier      *)
(* error exactly when it holds neither employeeSSN nor ssn, the name error *)
(* exactly when it holds none of employeeName, firstName and lastName; a   *)
(* field that is present with the value 0 or '' (as processW2Document's    *)
(* defaults are) brings no error and no warning for that field.            *)
(***************************************************************************)
C14_In(message, list) == \E n \in 1..Len(list) : list[n] = message

C14_PresenceOnly ==
  validation.returned =>
    LET w2 == validation.w2Data
        r  == validation.result
    IN  /\ C14_In(WagesError, r.errors) <=> ~C13_Present(w2, {"wages", "line1"})
        /\ C14_In(SSNError, r.errors) <=> ~C13_Present(w2, {"employeeSSN", "ssn"})
        /\ C14_In(NameError, r.errors)
              <=> ~C13_Present(w2, {"employeeName", "firstName", "lastName"})
        /\ C14_In(WithheldWarning, r.warnings) <=> IsUndef(w2["federalTaxWithheld"])
        /\ C14_In(EmployerNameWarning, r.warnings) <=> IsUndef(w2["employerName"])
        /\ C14_In(EmployerEINWarning, r.warnings) <=> IsUndef(w2["employerEIN"])

\* What the validator does instead: a field counts when its value is not
\* absent, 0 or ''.
C14_ValueOnly ==
  validation.returned =>
    LET w2 == validation.w2Data
        r  == validation.result
    IN  /\ C14_In(WagesError, r.errors) <=> ~C13_HasValue(w2, {"wages", "line1"})
        /\ C14_In(SSNError, r.errors) <=> ~C13_HasValue(w2, {"employeeSSN", "ssn"})
        /\ C14_In(NameError, r.errors)
              <=> ~C13_HasValue(w2, {"employeeName", "firstName", "lastName"})
        /\ C14_In(WithheldWarning, r.warnings) <=> ~Truthy(w2["federalTaxWithheld"])
        /\ C14_In(EmployerNameWarning, r.warnings) <=> ~Truthy(w2["employerName"])
        /\ C14_In(EmployerEINWarning, r.warnings) <=> ~Truthy(w2["employerEIN"])

\* processW2Document's defaults for an extraction that found nothing, and
\* the validator's three errors and three warnings for them.
C14_DefaultsRejected ==
  /\ validation.returned
  /\ validation.source = "processed"
  /\ validation.w2Data["wages"] = Num(0)
  /\ validation.w2Data["employeeSSN"] = Str(<<>>)
  /\ validation.w2Data["employeeName"] = Str(<<>>)
  /\ Len(validation.result.errors) = 3
  /\ Len(validation.result.warnings) = 3

(***************************************************************************)
(* C15: createMappingSummary never raises for a bag of strings and         *)
(* numbers; the list it returns has exactly one entry for each checklist   *)
(* field present in the bag and none for an absent one, in the checklist's *)
(* order (employeeName, employeeSSN, wages, federalTaxWithheld,            *)
(* socialSecurityWages, medicareWages); and the bag is left as it was.     *)
(***************************************************************************)
C15_Checklist ==
  << <<"employeeName", "Employee Name">>, <<"employeeSSN", "Employee SSN">>,
     <<"wages", "Box 1 - Wages">>, <<"federalTaxWithheld", "Box 2 - Federal Tax Withheld">>,
     <<"socialSecurityWages", "Box 3 - Social Security Wages">>,
     <<"medicareWages", "Box 5 - Medicare Wages">> >>

\* The entry names the checklist gives for the fields that satisfy Has.
C15_Expected(w2, Has(_)) ==
  LET kept == SelectSeq(C15_Checklist, LAMBDA c : Has(w2[c[1]]))
  IN  [n \in 1..Len(kept) |-> kept[n][2]]

C15_Names(mappings) == [n \in 1..Len(mappings) |-> mappings[n].w2Field]

C15_IsPresent(v) == ~IsUndef(v)

C15_OneEntryPerPresentField ==
  summary.returned =>
    LET r == summary.result
    IN  /\ ~r.threw
        /\ C15_Names(r.mappings) = C15_Expected(summary.w2Data, C15_IsPresent)
        /\ r.w2 = summary.w2Data

\* What the code does: it raises exactly for an employeeSSN that is a
\* number other than 0, and otherwise lists the fields whose value is not
\* absent, 0 or ''.
C15_OneEntryPerValuedField ==
  summary.returned =>
    LET r == summary.result
        numericSSN == IsNum(summary.w2Data["employeeSSN"])
                      /\ Truthy(summary.w2Data["employeeSSN"])
    IN  /\ r.threw <=> numericSSN
        /\ ~r.threw => C15_Names(r.mappings) = C15_Expected(summary.w2Data, Truthy)
        /\ r.w2 = summary.w2Data

\* The call raised.
C15_Raised == summary.returned /\ summary.result.threw

(***************************************************************************)
(* C16: formatSSN on a string removes every character that is not a digit; *)
(* nine remaining digits are returned as DDD-DD-DDDD and any other number  *)
(* of them as they are, without dashes ("123456789" gives "123-45-6789",   *)
(* "12345" gives "12345"); formatting the result again returns the result. *)
(***************************************************************************)
RECURSIVE C16_Digits(_)
C16_Digits(s) ==
  IF s = <<>> THEN <<>>
  ELSE (IF Head(s) \in {"0", "1", "2", "3", "4", "5", "6", "7", "8", "9"}
          THEN <<Head(s)>> ELSE <<>>) \o C16_Digits(Tail(s))

C16_FormatSSN ==
  /\ ssnCall.calls >= 1 =>
       LET d == C16_Digits(ssnCall.ssn)
       IN  /\ Len(d) = 9 =>
                ssnCall.first = <<d[1], d[2], d[3], "-", d[4], d[5], "-", d[6], d[7], d[8], d[9]>>
           /\ Len(d) # 9 => ssnCall.first = d
           /\ ssnCall.ssn = <<"1", "2", "3", "4", "5", "6", "7", "8", "9">> =>
                ssnCall.first = <<"1", "2", "3", "-", "4", "5", "-", "6", "7", "8", "9">>
           /\ ssnCall.ssn = <<"1", "2", "3", "4", "5">> =>
                ssnCall.first = <<"1", "2", "3", "4", "5">>
  /\ ssnCall.calls = 2 => ssnCall.second = ssnCall.first

\* Nine digits among other characters, formatted and formatted again.
C16_Witness ==
  /\ ssnCall.calls = 2
  /\ ssnCall.ssn = <<"x", "1", "2", "3", "4", "5", "6", "7", "8", "9", "#">>
  /\ ssnCall.first = <<"1", "2", "3", "-", "4", "5", "-", "6", "7", "8", "9">>
  /\ ssnCall.second = ssnCall.first

\* Digits and other characters, not nine digits: the other characters are gone.
C16_WitnessNotNine ==
  /\ ssnCall.calls = 2
  /\ ssnCall.ssn = <<"1", "-", "a">>
  /\ ssnCall.first = <<"1">>

C19_TerminalStatus ==
  (pc = "done" /\ trace.setProcessing /\ ~trace.failedUpdateThrew) =>
    document.processingStatus \in {"COMPLETED", "FAILED"}

\* The save in the stream was rejected and the run ended FAILED.
C19_Witness ==
  /\ pc = "done"
  /\ trace.setProcessing
  /\ trace.saveThrew
  /\ ~trace.failedUpdateThrew
  /\ response = "stream"
  /\ document.processingStatus = "FAILED"

\* The run ended with a 500 after PROCESSING was set.
C19_WitnessHandler ==
  /\ pc = "done"
  /\ trace.setProcessing
  /\ ~trace.failedUpdateThrew
  /\ response = "500"
  /\ document.processingStatus = "FAILED"

(***************************************************************************)
(* C20: COMPLETED is final within a run: once the stream has persisted     *)
(* COMPLETED with the extracted data, no later step of the run (sending    *)
(* [DONE], closing the stream, or the stream's error handler) writes       *)
(* FAILED.                                                                 *)
(***************************************************************************)
C20_CompletedIsFinal ==
  trace.completedWritten => document.processingStatus = "COMPLETED"

\* The run saved the extraction as COMPLETED and ended FAILED, the data
\* still in the row.
C20_CompletedThenFailed ==
  /\ pc = "done"
  /\ trace.completedWritten
  /\ document.saved.present
  /\ document.processingStatus = "FAILED"
  /\ stream.state = "cancelled"

(***************************************************************************)
(* C21: the form1040Data the GET handler returns is consistent with its    *)
(* own filingStatus: whenever the returned record has a filing status, its *)
(* line12 is the standard deduction of that status, line15 is the greater  *)
(* of 0 and line11 - line12 - line13, and line16 is the bracket tax of     *)
(* that status on line15.                                                  *)
(***************************************************************************)
C21_Returned == get.pc = "done" /\ get.status = "200"

C21_ConsistentWithFilingStatus ==
  (C21_Returned /\ Truthy(get.form1040Data["filingStatus"])) =>
    LET v  == get.form1040Data
        fs == v["filingStatus"]
        d  == OrZero(v["line11"]) - OrZero(v["line12"]) - OrZero(v["line13"])
    IN  /\ v["line12"] = Num(getStandardDeduction(fs))
        /\ v["line15"] = Num(IF d > 0 THEN d ELSE 0)
        /\ v["line16"] = Num(calculateTaxLiability(OrZero(v["line15"]), fs))

\* What the handler does: the fold runs without a filing status, so after
\* a merge line12 is absent, line15 is line11 and line16 is the single
\* table's tax, whatever filing status the record is then given; without a
\* merge none of the lines is set.
C21_ComputedWithoutFilingStatus ==
  C21_Returned =>
    LET v == get.form1040Data
    IN  /\ IsUndef(v["line12"])
        /\ Truthy(v["filingStatus"]) =>
              (v["filingStatus"] = get.taxReturn.filingStatus
               /\ v["firstName"] = OrEmpty(get.taxReturn.firstName))
        /\ get.mapped = 0 => (IsUndef(v["line15"]) /\ IsUndef(v["line16"]))
        /\ get.mapped > 0 =>
              /\ v["line15"] = Num(IF OrZero(v["line11"]) > 0 THEN OrZero(v["line11"]) ELSE 0)
              /\ v["line16"] = Num(calculateTaxLiability(OrZero(v["line15"]), Undef))

\* A married-filing-jointly return over one W2 without a name: the record
\* returned has the status, no line12, and the single table's tax on the
\* whole of the wages.
C21_JointReturnTaxedAsSingle ==
  /\ C21_Returned
  /\ get.mapped = 1
  /\ get.form1040Data["filingStatus"] = Enum("MARRIED_FILING_JOINTLY")
  /\ IsUndef(get.form1040Data["line12"])
  /\ get.form1040Data["line15"] = Num(5000000)
  /\ get.form1040Data["line16"] = Num(calculateTaxLiability(5000000, Enum("SINGLE")))
  /\ get.form1040Data["line16"] # Num(calculateTaxLiability(5000000 - 2770000,
                                                           Enum("MARRIED_FILING_JOINTLY")))

====
